---- MODULE Spec2Model ----
(***************************************************************************)
(* Permission-check client of gcp-emulator-auth: the decision core         *)
(* (Client.CheckPermission), the error classifier, and the trace writer    *)
(* (trace.Writer over a bufio.Writer over a file or stdout).               *)
(*                                                                         *)
(* Go values are modelled as follows.                                      *)
(*   - a Go string is a TLA+ string;                                       *)
(*   - a nilable value (error, pointer) is a sequence of length 0 (nil)    *)
(*     or 1 (the value);                                                   *)
(*   - a byte stream is a sequence of chunks: a JSON line is DataChunks    *)
(*     chunks of payload followed by one newline chunk.                    *)
(***************************************************************************)
EXTENDS Integers, Sequences, FiniteSets, TLC

VARIABLES
    traceOutput,   \* value of the IAM_TRACE_OUTPUT environment variable
    mode,          \* Client.mode
    hasWriter,     \* Client.traceWriter != nil
    wClosed,       \* Writer.closed
    bwBuf,         \* Writer.bw: bytes buffered, not yet written to Writer.out
    bwErr,         \* Writer.bw: sticky error of the bufio.Writer
    out,           \* bytes the sink (Writer.out) has received
    outIsStdout,   \* Writer.out == os.Stdout
    outClosed,     \* the sink's file descriptor has been closed
    sinkOK,        \* the device behind the sink accepts writes
    shortN,        \* chunks a failing device write still takes
    pc,            \* position of the caller inside CheckPermission
    args,          \* arguments of the call in progress
    outcome,       \* what TestIamPermissions returned
    waited,        \* the call in progress blocked for the transport's answer
    emitErr,       \* Writer.Emit returned an error in the call in progress
    event,         \* trace event built for the call in progress (0 or 1)
    emitted,       \* events Writer.Emit accepted during the call in progress
    outBefore,     \* sink content when the call in progress started
    result,        \* (allowed, error) returned by the last call
    calls,         \* number of CheckPermission calls started
    host,          \* target NewClient was given
    hasClient,     \* NewClient returned a client
    newClientErr,  \* NewClient returned an error
    newWriterErr,  \* NewWriterFromEnv returned an error
    connClosed,    \* Client.conn has been closed
    closeRet,      \* errors the Client.Close calls returned, in order
    outCloses,     \* calls of Writer.out.Close() made so far
    mu,            \* Writer.mu: the goroutine holding it, or NoThread
    tpc,           \* position of each goroutine inside Writer.Emit
    tev,           \* event each goroutine is emitting (0 or 1)
    lastRet,       \* what the last Writer operation returned (0 or 1)
    started,       \* events whose Emit passed the closed check, in lock order
    accepted,      \* events whose Emit returned nil, in lock order
    libCall        \* call of a package function: name, argument, done, result

vars == <<traceOutput, mode, hasWriter, wClosed, bwBuf, bwErr, out, outIsStdout,
          outClosed, sinkOK, shortN, pc, args, outcome, waited, emitErr, event, emitted,
          outBefore, result, calls, host, hasClient, newClientErr, newWriterErr,
          connClosed, closeRet, outCloses, mu, tpc, tev, lastRet, started, accepted,
          libCall>>

writerVars == <<wClosed, bwBuf, bwErr, out, outClosed, outCloses>>
deviceVars == <<sinkOK, shortN>>
clientVars == <<traceOutput, mode, hasWriter, outIsStdout, host, hasClient,
                newClientErr, newWriterErr>>
connVars == <<connClosed, closeRet>>
threadVars == <<mu, tpc, tev, lastRet, started, accepted>>
libVars == <<libCall>>
callVars == <<pc, args, outcome, waited, emitErr, event, emitted, outBefore, result, calls>>

(***************************************************************************)
(* Bounds of the model.                                                    *)
(***************************************************************************)
MaxCalls == 1      \* CheckPermission calls in one behaviour
MaxLatency == 1    \* call durations range over 0..MaxLatency milliseconds
DataChunks == 2    \* chunks the payload of one JSON line is cut into
BufSize == 4       \* capacity of the bufio.Writer, in chunks
MaxShort == 1      \* a failing device write takes 0..MaxShort chunks
MaxCloses == 2     \* Client.Close calls in one behaviour
MaxEmits == 3      \* Writer.Emit calls that reach the buffer in one behaviour
MaxLines == 3      \* lines of a trace file given to ValidateJSONLFile

(***************************************************************************)
(* Strings.  A Go string is a TLA+ string; its characters are the strings  *)
(* of length one.                                                          *)
(***************************************************************************)
UpperLetters == "ABCDEFGHIJKLMNOPQRSTUVWXYZ"
LowerLetters == "abcdefghijklmnopqrstuvwxyz"
Char(str, i) == SubSeq(str, i, i)

\* unicode.ToLower on one character.
ToLowerChar(c) ==
    IF \E i \in 1..Len(UpperLetters) : Char(UpperLetters, i) = c
    THEN Char(LowerLetters, CHOOSE i \in 1..Len(UpperLetters) : Char(UpperLetters, i) = c)
    ELSE c

RECURSIVE ToLower(_)
\* strings.ToLower
ToLower(str) ==
    IF str = "" THEN ""
    ELSE ToLowerChar(Head(str)) \o ToLower(Tail(str))

\* unicode.IsSpace on the characters of the model.
IsSpace(c) == c \in {" ", "\t", "\n", "\r"}

RECURSIVE TrimLeft(_)
TrimLeft(str) ==
    IF str = "" THEN ""
    ELSE IF IsSpace(Head(str)) THEN TrimLeft(Tail(str))
    ELSE str

RECURSIVE TrimRight(_)
TrimRight(str) ==
    IF str = "" THEN ""
    ELSE IF IsSpace(Char(str, Len(str))) THEN TrimRight(SubSeq(str, 1, Len(str) - 1))
    ELSE str

\* strings.TrimSpace
TrimSpace(str) == TrimRight(TrimLeft(str))

(***************************************************************************)
(* Auth modes.                                                             *)
(***************************************************************************)
AuthModeOff == "off"
AuthModePermissive == "permissive"
AuthModeStrict == "strict"
AuthModes == {AuthModeOff, AuthModePermissive, AuthModeStrict}

\* ParseAuthMode comparing the string as given.
ParseAuthMode_CaseSensitive(str) ==
    IF TrimSpace(str) = "permissive" THEN AuthModePermissive
    ELSE IF TrimSpace(str) = "strict" THEN AuthModeStrict
    ELSE AuthModeOff

ParseAuthMode(str) ==
    IF ToLower(TrimSpace(str)) = "permissive" THEN AuthModePermissive
    ELSE IF ToLower(TrimSpace(str)) = "strict" THEN AuthModeStrict
    ELSE AuthModeOff

\* AuthMode.String: string(m), the conversion of a named string type.
String(m) == m

\* AuthMode.IsEnabled
IsEnabled(m) == m # AuthModeOff

(***************************************************************************)
(* Errors.  A Go error is NoError (nil) or <<e>> with e.grpc telling       *)
(* whether it carries a gRPC status, e.code the status code and e.text the *)
(* string Error() returns.                                                 *)
(***************************************************************************)
NoError == <<>>

GrpcError(code, text) == <<[grpc |-> TRUE, code |-> code, text |-> text]>>
PlainError(text) == <<[grpc |-> FALSE, code |-> "", text |-> text]>>

\* status.Code: OK for nil, the status code of a gRPC error, Unknown otherwise.
StatusCode(err) ==
    IF err = NoError THEN "OK"
    ELSE IF err[1].grpc THEN err[1].code
    ELSE "Unknown"

\* error.Error()
ErrorString(err) == err[1].text

IsConnectivityError_NoCanceled(err) ==
    IF err = NoError THEN FALSE
    ELSE StatusCode(err) \in {"Unavailable", "DeadlineExceeded"}

IsConnectivityError(err) ==
    IF err = NoError THEN FALSE
    ELSE LET code == StatusCode(err)
         IN  code = "Unavailable" \/ code = "DeadlineExceeded" \/ code = "Canceled"

IsConfigError_NoUnimplemented(err) ==
    IF err = NoError THEN FALSE
    ELSE StatusCode(err) \in {"InvalidArgument", "Internal"}

IsConfigError(err) ==
    IF err = NoError THEN FALSE
    ELSE LET code == StatusCode(err)
         IN  code = "InvalidArgument" \/ code = "Internal" \/ code = "Unimplemented"

(***************************************************************************)
(* Trace events (pkg/trace).  The Trace and Policy members are never set   *)
(* by the client and stay nil; they are left out of the record.            *)
(***************************************************************************)
SchemaV1_0 == "1.0"
EventTypeAuthzCheck == "authz_check"
EventTypeAuthzError == "authz_error"
OutcomeAllow == "ALLOW"
OutcomeDeny == "DENY"

Nil == <<>>
Ptr(x) == <<x>>

\* trace.NowRFC3339Nano at logical time t: a non-empty rendering of the clock.
NowRFC3339Nano(t) == ToString(t)

\* encoding/json of an AuthzEvent: the set of <<key, text>> members of the
\* JSON object.  A nil pointer and an omitempty member holding its zero value
\* produce no member; numbers and booleans are rendered as text.
MarshalMember(key, text, omitempty, zero) ==
    IF omitempty /\ text = zero THEN {} ELSE {<<key, text>>}

MarshalBool(b) == IF b THEN "true" ELSE "false"

Marshal(ev) ==
    {<<"schema_version", ev.SchemaVersion>>,
     <<"event_type", ev.EventType>>,
     <<"timestamp", ev.Timestamp>>}
    \cup (IF ev.Actor = Nil THEN {}
          ELSE {<<"actor", "{}">>, <<"actor.principal", ev.Actor[1].Principal>>})
    \cup (IF ev.Target = Nil THEN {}
          ELSE {<<"target", "{}">>, <<"target.resource", ev.Target[1].Resource>>})
    \cup (IF ev.Action = Nil THEN {}
          ELSE {<<"action", "{}">>, <<"action.permission", ev.Action[1].Permission>>}
               \cup MarshalMember("action.method", ev.Action[1].Method, TRUE, ""))
    \cup (IF ev.Decision = Nil THEN {}
          ELSE {<<"decision", "{}">>, <<"decision.outcome", ev.Decision[1].Outcome>>}
               \cup MarshalMember("decision.reason", ev.Decision[1].Reason, TRUE, "")
               \cup MarshalMember("decision.evaluated_by",
                                  ev.Decision[1].EvaluatedBy, TRUE, "")
               \cup MarshalMember("decision.latency_ms",
                                  ToString(ev.Decision[1].LatencyMS), TRUE, "0"))
    \cup (IF ev.Environment = Nil THEN {}
          ELSE {<<"environment", "{}">>}
               \cup MarshalMember("environment.mode", ev.Environment[1].Mode, TRUE, "")
               \cup MarshalMember("environment.component",
                                  ev.Environment[1].Component, TRUE, ""))
    \cup (IF ev.Error = Nil THEN {}
          ELSE {<<"error", "{}">>, <<"error.kind", ev.Error[1].Kind>>,
                <<"error.message", ev.Error[1].Message>>}
               \cup MarshalMember("error.retryable",
                                  MarshalBool(ev.Error[1].Retryable), TRUE, "false"))

(***************************************************************************)
(* Byte streams.  Chunk i (1..DataChunks) of a JSON payload, and the       *)
(* newline that ends a line.                                               *)
(***************************************************************************)
DataChunk(json, i) == [json |-> json, part |-> i]
Newline == [json |-> {}, part |-> 0]
Bytes(json) == [i \in 1..DataChunks |-> DataChunk(json, i)]
Line(json) == Append(Bytes(json), Newline)

Min(a, b) == IF a < b THEN a ELSE b
SubSeqFrom(s, n) == SubSeq(s, n + 1, Len(s))

(***************************************************************************)
(* The sink (os.File or os.Stdout) and the bufio.Writer in front of it.    *)
(* An io state is [buf, err, out]: the buffer, the sticky error flag and   *)
(* the bytes the sink has taken.                                           *)
(***************************************************************************)
IoState == [buf |-> bwBuf, err |-> bwErr, out |-> out]

\* os.File.Write(p): n chunks written and whether an error is returned.
FileWrite(o, p) ==
    IF outClosed THEN [n |-> 0, err |-> TRUE, out |-> o]
    ELSE IF ~sinkOK
         THEN LET n == Min(shortN, Len(p))
              IN  [n |-> n, err |-> TRUE, out |-> o \o SubSeq(p, 1, n)]
    ELSE [n |-> Len(p), err |-> FALSE, out |-> o \o p]

Available(s) == BufSize - Len(s.buf)

\* bufio.Writer.Flush
BufFlush(s) ==
    IF s.err THEN s
    ELSE IF Len(s.buf) = 0 THEN s
    ELSE LET w == FileWrite(s.out, s.buf)
         IN  IF w.err
             THEN [buf |-> SubSeqFrom(s.buf, w.n), err |-> TRUE, out |-> w.out]
             ELSE [buf |-> <<>>, err |-> FALSE, out |-> w.out]

\* bufio.Writer.Write(p); it reports an error exactly when the resulting
\* state has err set.
RECURSIVE BufWrite(_, _)
BufWrite(s, p) ==
    IF Len(p) > Available(s) /\ ~s.err
    THEN IF Len(s.buf) = 0
         THEN \* large write, empty buffer: written directly to the sink
              LET w == FileWrite(s.out, p)
              IN  BufWrite([buf |-> s.buf, err |-> w.err, out |-> w.out],
                           SubSeqFrom(p, w.n))
         ELSE LET n == Min(Available(s), Len(p))
                  filled == [s EXCEPT !.buf = s.buf \o SubSeq(p, 1, n)]
              IN  BufWrite(BufFlush(filled), SubSeqFrom(p, n))
    ELSE IF s.err THEN s
    ELSE [s EXCEPT !.buf = s.buf \o p]

\* bufio.Writer.WriteByte(c): [s, err]
BufWriteByte(s, c) ==
    IF s.err THEN [s |-> s, err |-> TRUE]
    ELSE IF Available(s) <= 0
         THEN LET f == BufFlush(s)
              IN  IF f.err THEN [s |-> f, err |-> TRUE]
                  ELSE [s |-> [f EXCEPT !.buf = Append(f.buf, c)], err |-> FALSE]
    ELSE [s |-> [s EXCEPT !.buf = Append(s.buf, c)], err |-> FALSE]

(***************************************************************************)
(* trace.Writer operations on a non-nil writer, each run under Writer.mu.  *)
(* Emit and Flush yield [s, err]: the io state and whether an error is     *)
(* returned; Close yields in addition Writer.closed and whether the sink   *)
(* is closed.                                                              *)
(***************************************************************************)
WriterEmit(ev) ==
    IF wClosed
    THEN [s |-> IoState, err |-> TRUE]
    ELSE LET data == Marshal(ev)
             s1 == BufWrite(IoState, Bytes(data))
         IN  IF s1.err THEN [s |-> s1, err |-> TRUE]
             ELSE BufWriteByte(s1, Newline)

WriterFlush_Skipped == [s |-> IoState, err |-> FALSE]

\* Flush without the closed check.
WriterFlush_NoClosedCheck ==
    LET f == BufFlush(IoState)
    IN  [s |-> f, err |-> f.err]

WriterFlush ==
    IF wClosed
    THEN [s |-> IoState, err |-> FALSE]
    ELSE LET f == BufFlush(IoState)
         IN  [s |-> f, err |-> f.err]

\* Close without the closed check: every call flushes and closes the sink.
WriterClose_NoClosedCheck ==
    LET f == BufFlush(IoState)
    IN  IF f.err
        THEN [s |-> f, closed |-> TRUE, outClosed |-> outClosed, sinkClose |-> FALSE,
              err |-> TRUE]
        ELSE IF ~outIsStdout
        THEN [s |-> f, closed |-> TRUE, outClosed |-> TRUE, sinkClose |-> TRUE,
              err |-> outClosed]
        ELSE [s |-> f, closed |-> TRUE, outClosed |-> outClosed, sinkClose |-> FALSE,
              err |-> FALSE]

\* sinkClose: w.out.Close() was called.  os.File.Close: closing a closed file
\* is an error.
WriterClose ==
    IF wClosed
    THEN [s |-> IoState, closed |-> TRUE, outClosed |-> outClosed, sinkClose |-> FALSE,
          err |-> FALSE]
    ELSE LET f == BufFlush(IoState)
         IN  IF f.err
             THEN [s |-> f, closed |-> TRUE, outClosed |-> outClosed,
                   sinkClose |-> FALSE, err |-> TRUE]
             ELSE IF ~outIsStdout
             THEN [s |-> f, closed |-> TRUE, outClosed |-> TRUE, sinkClose |-> TRUE,
                   err |-> outClosed]
             ELSE [s |-> f, closed |-> TRUE, outClosed |-> outClosed,
                   sinkClose |-> FALSE, err |-> FALSE]

(***************************************************************************)
(* Trace schema validator (pkg/trace).  An error is NoError or <<text>>.   *)
(***************************************************************************)
\* Validator.SupportedSchemaVersions as NewValidator sets it.
SupportedSchemaVersions == {SchemaV1_0}

ValidateEvent_PrincipalOptional(ev) ==
    IF ev.SchemaVersion = "" THEN <<"missing schema_version">>
    ELSE IF ev.SchemaVersion \notin SupportedSchemaVersions
    THEN <<"unsupported schema_version">>
    ELSE IF ev.EventType = "" THEN <<"missing event_type">>
    ELSE IF ev.Timestamp = "" THEN <<"missing timestamp">>
    ELSE IF ev.EventType = EventTypeAuthzCheck
    THEN IF ev.Actor = Nil THEN <<"missing actor.principal">>
         ELSE IF ev.Target = Nil \/ TrimSpace(ev.Target[1].Resource) = ""
         THEN <<"missing target.resource">>
         ELSE IF ev.Action = Nil \/ TrimSpace(ev.Action[1].Permission) = ""
         THEN <<"missing action.permission">>
         ELSE IF ev.Decision = Nil \/ TrimSpace(ev.Decision[1].Outcome) = ""
         THEN <<"missing decision.outcome">>
         ELSE IF ev.Decision[1].Outcome # OutcomeAllow
                 /\ ev.Decision[1].Outcome # OutcomeDeny
         THEN <<"invalid decision.outcome">>
         ELSE NoError
    ELSE IF ev.EventType = EventTypeAuthzError
    THEN IF ev.Error = Nil THEN <<"missing error object">>
         ELSE IF TrimSpace(ev.Error[1].Kind) = "" THEN <<"missing error.kind">>
         ELSE IF TrimSpace(ev.Error[1].Message) = "" THEN <<"missing error.message">>
         ELSE NoError
    ELSE <<"unknown event_type">>

ValidateEvent(ev) ==
    IF ev.SchemaVersion = "" THEN <<"missing schema_version">>
    ELSE IF ev.SchemaVersion \notin SupportedSchemaVersions
    THEN <<"unsupported schema_version">>
    ELSE IF ev.EventType = "" THEN <<"missing event_type">>
    ELSE IF ev.Timestamp = "" THEN <<"missing timestamp">>
    ELSE IF ev.EventType = EventTypeAuthzCheck
    THEN IF ev.Actor = Nil \/ TrimSpace(ev.Actor[1].Principal) = ""
         THEN <<"missing actor.principal">>
         ELSE IF ev.Target = Nil \/ TrimSpace(ev.Target[1].Resource) = ""
         THEN <<"missing target.resource">>
         ELSE IF ev.Action = Nil \/ TrimSpace(ev.Action[1].Permission) = ""
         THEN <<"missing action.permission">>
         ELSE IF ev.Decision = Nil \/ TrimSpace(ev.Decision[1].Outcome) = ""
         THEN <<"missing decision.outcome">>
         ELSE IF ev.Decision[1].Outcome # OutcomeAllow
                 /\ ev.Decision[1].Outcome # OutcomeDeny
         THEN <<"invalid decision.outcome">>
         ELSE NoError
    ELSE IF ev.EventType = EventTypeAuthzError
    THEN IF ev.Error = Nil THEN <<"missing error object">>
         ELSE IF TrimSpace(ev.Error[1].Kind) = "" THEN <<"missing error.kind">>
         ELSE IF TrimSpace(ev.Error[1].Message) = "" THEN <<"missing error.message">>
         ELSE NoError
    ELSE <<"unknown event_type">>

(***************************************************************************)
(* Reading a trace file back (Validator.ValidateJSONLFile).  A file is     *)
(* [name, exists, gzip, data]: its path, whether it can be opened, whether *)
(* its content is gzip-compressed, and the chunks of its uncompressed      *)
(* content.                                                                *)
(***************************************************************************)
\* A chunk of whitespace other than a newline.
Space == [json |-> {}, part |-> -1]

\* bufio.MaxScanTokenSize, the longest line a bufio.Scanner built by
\* bufio.NewScanner returns, in bytes.
MaxScanTokenSize == 65536

RECURSIVE SumLen(_)
\* Bytes of the member values of a JSON object: a lower bound of the length
\* of its encoding.
SumLen(json) ==
    IF json = {} THEN 0
    ELSE LET m == CHOOSE m \in json : TRUE
         IN  Len(m[2]) + SumLen(json \ {m})

RECURSIVE TokenSize(_)
\* Bytes of a sequence of chunks: a chunk of payload is its share of the
\* encoding, a whitespace chunk one byte.
TokenSize(token) ==
    IF token = <<>> THEN 0
    ELSE (IF Head(token).part >= 1 THEN SumLen(Head(token).json) \div DataChunks ELSE 1)
         + TokenSize(Tail(token))

RECURSIVE ScanLines(_)
\* bufio.ScanLines over the whole content: the lines without their
\* newline; a last line without newline counts when it is not empty.
ScanLines(data) ==
    IF data = <<>> THEN <<>>
    ELSE IF \E i \in 1..Len(data) : data[i] = Newline
    THEN LET n == CHOOSE i \in 1..Len(data) :
                      data[i] = Newline /\ \A k \in 1..(i - 1) : data[k] # Newline
         IN  <<SubSeq(data, 1, n - 1)>> \o ScanLines(SubSeqFrom(data, n))
    ELSE <<data>>

RECURSIVE TrimChunks(_)
\* strings.TrimSpace on a line.
TrimChunks(line) ==
    IF line = <<>> THEN <<>>
    ELSE IF Head(line) = Space THEN TrimChunks(Tail(line))
    ELSE IF line[Len(line)] = Space THEN TrimChunks(SubSeq(line, 1, Len(line) - 1))
    ELSE line

\* The text of member key of a JSON object, def when it is absent.
Member(json, key, def) ==
    IF \E m \in json : m[1] = key
    THEN (CHOOSE m \in json : m[1] = key)[2]
    ELSE def

HasMember(json, key) == \E m \in json : m[1] = key

\* strconv of a JSON number of the model.
ParseInt(text) ==
    IF \E n \in 0..(MaxLatency + 1) : ToString(n) = text
    THEN CHOOSE n \in 0..(MaxLatency + 1) : ToString(n) = text
    ELSE 0

\* encoding/json decoding of an object into an AuthzEvent: absent members
\* leave the zero value, absent objects a nil pointer.
Decode(json) ==
    [SchemaVersion |-> Member(json, "schema_version", ""),
     EventType |-> Member(json, "event_type", ""),
     Timestamp |-> Member(json, "timestamp", ""),
     Actor |-> IF HasMember(json, "actor")
               THEN Ptr([Principal |-> Member(json, "actor.principal", "")])
               ELSE Nil,
     Target |-> IF HasMember(json, "target")
                THEN Ptr([Resource |-> Member(json, "target.resource", "")])
                ELSE Nil,
     Action |-> IF HasMember(json, "action")
                THEN Ptr([Permission |-> Member(json, "action.permission", ""),
                          Method |-> Member(json, "action.method", "")])
                ELSE Nil,
     Decision |-> IF HasMember(json, "decision")
                  THEN Ptr([Outcome |-> Member(json, "decision.outcome", ""),
                            Reason |-> Member(json, "decision.reason", ""),
                            EvaluatedBy |-> Member(json, "decision.evaluated_by", ""),
                            LatencyMS |-> ParseInt(Member(json, "decision.latency_ms", "0"))])
                  ELSE Nil,
     Environment |-> IF HasMember(json, "environment")
                     THEN Ptr([Mode |-> Member(json, "environment.mode", ""),
                               Component |-> Member(json, "environment.component", "")])
                     ELSE Nil,
     Error |-> IF HasMember(json, "error")
               THEN Ptr([Kind |-> Member(json, "error.kind", ""),
                         Message |-> Member(json, "error.message", ""),
                         Retryable |-> Member(json, "error.retryable", "false") = "true"])
               ELSE Nil]

\* json.Unmarshal([]byte(line), &ev): [ok, ev].  The line is valid JSON when
\* it is the whole encoding of one object, chunk after chunk.
Unmarshal(line) ==
    IF /\ Len(line) = DataChunks
       /\ \A i \in 1..DataChunks : line[i] = DataChunk(line[1].json, i)
    THEN [ok |-> TRUE, ev |-> <<Decode(line[1].json)>>]
    ELSE [ok |-> FALSE, ev |-> <<>>]

\* What ValidateJSONLFile returns: nil, a ValidationError with its line
\* number, or another error.
FileOK == [kind |-> "nil", line |-> 0, msg |-> ""]
ValidationError(line, msg) == [kind |-> "ValidationError", line |-> line, msg |-> msg]
OtherError(msg) == [kind |-> "error", line |-> 0, msg |-> msg]

\* ValidateLines that numbers only the lines it validates.
RECURSIVE ValidateLines_SkipUncounted(_, _)
ValidateLines_SkipUncounted(lines, lineNum) ==
    IF lines = <<>> THEN FileOK
    ELSE IF TokenSize(Head(lines)) >= MaxScanTokenSize
    THEN OtherError("scanner error: bufio.Scanner: token too long")
    ELSE IF TrimChunks(Head(lines)) = <<>>
    THEN ValidateLines_SkipUncounted(Tail(lines), lineNum)
    ELSE LET u == Unmarshal(TrimChunks(Head(lines)))
         IN  IF ~u.ok THEN ValidationError(lineNum + 1, "invalid JSON")
             ELSE IF ValidateEvent(u.ev[1]) # NoError
             THEN ValidationError(lineNum + 1, ValidateEvent(u.ev[1])[1])
             ELSE ValidateLines_SkipUncounted(Tail(lines), lineNum + 1)

\* The scanner loop of ValidateJSONLFile from line lineNum + 1 on; a line
\* the scanner cannot hold ends the loop with scanner.Err() set.
RECURSIVE ValidateLines(_, _)
ValidateLines(lines, lineNum) ==
    IF lines = <<>> THEN FileOK
    ELSE IF TokenSize(Head(lines)) >= MaxScanTokenSize
    THEN OtherError("scanner error: bufio.Scanner: token too long")
    ELSE IF TrimChunks(Head(lines)) = <<>>
    THEN ValidateLines(Tail(lines), lineNum + 1)
    ELSE LET u == Unmarshal(TrimChunks(Head(lines)))
         IN  IF ~u.ok THEN ValidationError(lineNum + 1, "invalid JSON")
             ELSE IF ValidateEvent(u.ev[1]) # NoError
             THEN ValidationError(lineNum + 1, ValidateEvent(u.ev[1])[1])
             ELSE ValidateLines(Tail(lines), lineNum + 1)

RECURSIVE Ext(_)
\* filepath.Ext: the suffix from the last dot of the last path element.
Ext(path) ==
    IF path = "" \/ Char(path, Len(path)) = "/" THEN ""
    ELSE IF Char(path, Len(path)) = "." THEN "."
    ELSE LET e == Ext(SubSeq(path, 1, Len(path) - 1))
         IN  IF e = "" THEN "" ELSE e \o Char(path, Len(path))

\* openMaybeGzip: [err, data], the error and the bytes the reader yields.
OpenMaybeGzip(f) ==
    IF ~f.exists THEN [err |-> <<"open: no such file or directory">>, data |-> <<>>]
    ELSE IF Ext(f.name) = ".gz"
    THEN IF f.gzip THEN [err |-> NoError, data |-> f.data]
         ELSE [err |-> <<"gzip: invalid header">>, data |-> <<>>]
    ELSE [err |-> NoError, data |-> f.data]

ValidateJSONLFile(f) ==
    LET r == OpenMaybeGzip(f)
    IN  IF r.err # NoError THEN OtherError(r.err[1])
        ELSE ValidateLines(ScanLines(r.data), 0)

(***************************************************************************)
(* Construction.  NewWriter opens the destination; NewClient takes the     *)
(* writer NewWriterFromEnv returns and drops its error.                    *)
(***************************************************************************)
TraceOutputs == {"", "stdout", "STDOUT", "/tmp/authz.jsonl", "/nonexistent/authz.jsonl"}

\* os.OpenFile(dest, O_CREATE|O_APPEND|O_WRONLY): succeeds where the
\* directory exists.
CanOpen(dest) == dest = "/tmp/authz.jsonl"

\* [w, stdout, err]: a writer was returned, it writes to os.Stdout, an error
\* was returned.
NewWriter(dest) ==
    IF dest = "" THEN [w |-> FALSE, stdout |-> FALSE, err |-> TRUE]
    ELSE IF ToLower(dest) = "stdout" THEN [w |-> TRUE, stdout |-> TRUE, err |-> FALSE]
    ELSE IF ~CanOpen(dest) THEN [w |-> FALSE, stdout |-> FALSE, err |-> TRUE]
    ELSE [w |-> TRUE, stdout |-> FALSE, err |-> FALSE]

\* NewWriterFromEnv without the test for an unset variable.
NewWriterFromEnv_NoEmptyCheck(dest) == NewWriter(dest)

NewWriterFromEnv(dest) ==
    IF dest = "" THEN [w |-> FALSE, stdout |-> FALSE, err |-> FALSE]
    ELSE NewWriter(dest)

\* Targets given to NewClient; grpc.NewClient rejects a target it cannot
\* parse ("%" is an invalid URL escape).
Hosts == {"localhost:8080", "%"}
ValidTarget(h) == h # "%"

\* [client, err, w, stdout, werr]: a client was returned, an error was
\* returned, the client holds a trace writer, that writer writes to
\* os.Stdout, NewWriterFromEnv returned an error (dropped by NewClient).
NewClient(h, dest) ==
    IF ~ValidTarget(h)
    THEN [client |-> FALSE, err |-> TRUE, w |-> FALSE, stdout |-> FALSE, werr |-> FALSE]
    ELSE LET t == NewWriterFromEnv(dest)
         IN  [client |-> TRUE, err |-> FALSE, w |-> t.w, stdout |-> t.stdout,
              werr |-> t.err]

(***************************************************************************)
(* Inputs of CheckPermission and answers of the remote evaluator.          *)
(***************************************************************************)
Principals == {"", "user:alice@example.com"}
Resources == {"projects/p/secrets/s"}
Permissions == {"secretmanager.secrets.get"}
OtherPermission == "secretmanager.versions.access"

\* Permission lists a TestIamPermissionsResponse can carry for a request of
\* permission p.
Responses(p) == {<<>>, <<p>>, <<OtherPermission>>, <<p, OtherPermission>>}

RemoteErrors ==
    {GrpcError("Unavailable", "rpc error: code = Unavailable desc = connection refused"),
     GrpcError("DeadlineExceeded",
               "rpc error: code = DeadlineExceeded desc = context deadline exceeded"),
     GrpcError("Canceled", "rpc error: code = Canceled desc = context canceled"),
     GrpcError("InvalidArgument", "rpc error: code = InvalidArgument desc = bad resource"),
     GrpcError("Internal", "rpc error: code = Internal desc = internal"),
     GrpcError("Unimplemented", "rpc error: code = Unimplemented desc = unknown service"),
     GrpcError("PermissionDenied", "rpc error: code = PermissionDenied desc = denied"),
     GrpcError("NotFound", "rpc error: code = NotFound desc = no policy"),
     GrpcError("Unauthenticated", "rpc error: code = Unauthenticated desc = no principal"),
     PlainError("connection reset by peer")}

Response(perms) == [perms |-> perms, err |-> NoError]
Failure(err) == [perms |-> <<>>, err |-> err]

\* What c.client.TestIamPermissions(ctx, ...) can return.  A context that is
\* already cancelled ends the call with status Canceled before anything is
\* sent, and so does a connection that has been closed; otherwise the
\* transport waits for an answer, a failure or the 2 s deadline.
TestIamPermissions(a) ==
    IF a.cancelled
    THEN {Failure(GrpcError("Canceled",
                            "rpc error: code = Canceled desc = context canceled"))}
    ELSE IF connClosed
    THEN {Failure(GrpcError("Canceled",
              "rpc error: code = Canceled desc = grpc: the client connection is closing"))}
    ELSE {Response(r) : r \in Responses(a.permission)}
         \cup {Failure(e) : e \in RemoteErrors}

(***************************************************************************)
(* Client.CheckPermission.                                                 *)
(***************************************************************************)
Result(allowed, err) == [allowed |-> allowed, err |-> err]

\* The version without tracing.
CheckPermissionUntraced(m, o) ==
    IF o.err # NoError
    THEN IF IsConnectivityError(o.err)
         THEN IF m = AuthModePermissive
              THEN Result(TRUE, NoError)
              ELSE Result(FALSE, o.err)
         ELSE Result(FALSE, o.err)
    ELSE Result(Len(o.perms) = 1, NoError)

\* allowed := len(resp.Permissions) == 1
Granted_Contains(perms, permission) == \E i \in 1..Len(perms) : perms[i] = permission

Granted(perms, permission) == Len(perms) = 1

Decide_FailOpenAlways(m, a, o) ==
    IF o.err # NoError
    THEN IF m = AuthModePermissive
         THEN Result(TRUE, NoError)
         ELSE Result(FALSE, o.err)
    ELSE Result(Granted(o.perms, a.permission), NoError)

Decide_StrictOnly(m, a, o) ==
    IF o.err # NoError
    THEN IF IsConnectivityError(o.err)
         THEN IF m # AuthModeStrict
              THEN Result(TRUE, NoError)
              ELSE Result(FALSE, o.err)
         ELSE Result(FALSE, o.err)
    ELSE Result(Granted(o.perms, a.permission), NoError)

Decide_DenyWithError(m, a, o) ==
    IF o.err # NoError
    THEN IF IsConnectivityError(o.err)
         THEN IF m = AuthModePermissive
              THEN Result(TRUE, NoError)
              ELSE Result(FALSE, o.err)
         ELSE Result(FALSE, o.err)
    ELSE IF Granted(o.perms, a.permission)
         THEN Result(TRUE, NoError)
         ELSE Result(FALSE, PlainError("permission denied"))

\* The value the traced version returns for remote outcome o.
Decide(m, a, o) ==
    IF o.err # NoError
    THEN IF IsConnectivityError(o.err)
         THEN IF m = AuthModePermissive
              THEN Result(TRUE, NoError)
              ELSE Result(FALSE, o.err)
         ELSE Result(FALSE, o.err)
    ELSE Result(Granted(o.perms, a.permission), NoError)

\* _ = c.traceWriter.Emit(event); _ = c.traceWriter.Flush(): both errors are
\* dropped.
ReturnAfterTrace_Propagate(m, a, o, emitFailed, flushFailed) ==
    IF emitFailed \/ flushFailed
    THEN Result(FALSE, PlainError("writer is closed"))
    ELSE Decide(m, a, o)

ReturnAfterTrace(m, a, o, emitFailed, flushFailed) == Decide(m, a, o)

AuthzCheckEvent_ReasonsSwapped(m, a, allowed, ms, t) ==
    [SchemaVersion |-> SchemaV1_0,
     EventType |-> EventTypeAuthzCheck,
     Timestamp |-> NowRFC3339Nano(t),
     Actor |-> Ptr([Principal |-> a.principal]),
     Target |-> Ptr([Resource |-> a.resource]),
     Action |-> Ptr([Permission |-> a.permission, Method |-> "CheckPermission"]),
     Decision |-> Ptr([Outcome |-> IF allowed THEN OutcomeAllow ELSE OutcomeDeny,
                       Reason |-> IF allowed THEN "no_matching_binding"
                                  ELSE "binding_match",
                       EvaluatedBy |-> "gcp-emulator-auth",
                       LatencyMS |-> ms]),
     Environment |-> Ptr([Mode |-> m, Component |-> "gcp-emulator-auth"]),
     Error |-> Nil]

\* The event emitAuthzTrace builds.
AuthzCheckEvent(m, a, allowed, ms, t) ==
    [SchemaVersion |-> SchemaV1_0,
     EventType |-> EventTypeAuthzCheck,
     Timestamp |-> NowRFC3339Nano(t),
     Actor |-> Ptr([Principal |-> a.principal]),
     Target |-> Ptr([Resource |-> a.resource]),
     Action |-> Ptr([Permission |-> a.permission, Method |-> "CheckPermission"]),
     Decision |-> Ptr([Outcome |-> IF allowed THEN OutcomeAllow ELSE OutcomeDeny,
                       Reason |-> IF allowed THEN "binding_match"
                                  ELSE "no_matching_binding",
                       EvaluatedBy |-> "gcp-emulator-auth",
                       LatencyMS |-> ms]),
     Environment |-> Ptr([Mode |-> m, Component |-> "gcp-emulator-auth"]),
     Error |-> Nil]

ErrorKind_ConfigFirst(err) ==
    IF IsConfigError(err) \/ StatusCode(err) = "Canceled"
    THEN [kind |-> "invalid_request", retryable |-> FALSE]
    ELSE IF IsConnectivityError(err)
    THEN [kind |-> "iam_unreachable", retryable |-> TRUE]
    ELSE [kind |-> "policy_error", retryable |-> FALSE]

\* kind and retryable as emitErrorTrace chooses them.
ErrorKind(err) ==
    IF IsConnectivityError(err)
    THEN [kind |-> "iam_unreachable", retryable |-> TRUE]
    ELSE IF IsConfigError(err)
    THEN [kind |-> "invalid_request", retryable |-> FALSE]
    ELSE [kind |-> "policy_error", retryable |-> FALSE]

\* The event emitErrorTrace builds.
AuthzErrorEvent(m, err, t) ==
    [SchemaVersion |-> SchemaV1_0,
     EventType |-> EventTypeAuthzError,
     Timestamp |-> NowRFC3339Nano(t),
     Actor |-> Nil,
     Target |-> Nil,
     Action |-> Nil,
     Decision |-> Nil,
     Environment |-> Ptr([Mode |-> m, Component |-> "gcp-emulator-auth"]),
     Error |-> Ptr([Kind |-> ErrorKind(err).kind,
                    Message |-> ErrorString(err),
                    Retryable |-> ErrorKind(err).retryable])]

TraceEvent_AlwaysCheck(m, a, o, ms, t) ==
    AuthzCheckEvent(m, a, Decide(m, a, o).allowed, ms, t)

\* The event CheckPermission hands to the trace writer for outcome o.
TraceEvent(m, a, o, ms, t) ==
    IF o.err # NoError
    THEN AuthzErrorEvent(m, o.err, t)
    ELSE AuthzCheckEvent(m, a, Granted(o.perms, a.permission), ms, t)

(***************************************************************************)
(* State machine.                                                          *)
(***************************************************************************)
NoCall == [principal |-> "", resource |-> "", permission |-> "", cancelled |-> FALSE]

NoThread == "none"
Threads == {"t1", "t2"}

\* No package function has been called.
NoLibCall == [fn |-> "", arg |-> <<>>, done |-> FALSE, ret |-> <<>>]

\* Nothing written, nothing called yet.
InitCall ==
    /\ wClosed = FALSE
    /\ bwBuf = <<>>
    /\ bwErr = FALSE
    /\ out = <<>>
    /\ outClosed = FALSE
    /\ sinkOK = TRUE
    /\ shortN = 0
    /\ pc = "idle"
    /\ args = NoCall
    /\ outcome = <<>>
    /\ waited = FALSE
    /\ emitErr = FALSE
    /\ event = <<>>
    /\ emitted = <<>>
    /\ outBefore = <<>>
    /\ result = <<>>
    /\ calls = 0
    /\ connClosed = FALSE
    /\ closeRet = <<>>
    /\ outCloses = 0
    /\ mu = NoThread
    /\ tpc = [t \in Threads |-> "idle"]
    /\ tev = [t \in Threads |-> <<>>]
    /\ lastRet = <<>>
    /\ started = <<>>
    /\ accepted = <<>>

InitIdle ==
    /\ InitCall
    /\ libCall = NoLibCall

\* The state NewClient(host, mode) leaves.
Init ==
    /\ traceOutput \in TraceOutputs
    /\ mode \in AuthModes
    /\ host \in Hosts
    /\ hasClient = NewClient(host, traceOutput).client
    /\ newClientErr = NewClient(host, traceOutput).err
    /\ hasWriter = NewClient(host, traceOutput).w
    /\ outIsStdout = NewClient(host, traceOutput).stdout
    /\ newWriterErr = NewClient(host, traceOutput).werr
    /\ InitIdle

\* CheckPermission is entered: the principal is injected, the timeout context
\* derived and the request sent.
CheckPermissionCall(principal, resource, permission, cancelled) ==
    /\ hasClient
    /\ pc \in {"idle", "done"}
    /\ calls < MaxCalls
    /\ pc' = "invoke"
    /\ args' = [principal |-> principal, resource |-> resource,
                permission |-> permission, cancelled |-> cancelled]
    /\ calls' = calls + 1
    /\ outcome' = <<>>
    /\ waited' = FALSE
    /\ emitErr' = FALSE
    /\ event' = <<>>
    /\ emitted' = <<>>
    /\ outBefore' = out
    /\ result' = <<>>
    /\ UNCHANGED <<libVars, clientVars, connVars, threadVars, writerVars, deviceVars>>

\* TestIamPermissions returns o after ms milliseconds.  Without a trace
\* writer the call returns at once; with one the event is built and the
\* caller goes on to Writer.Emit.
RemoteReturns(o, ms) ==
    /\ pc = "invoke"
    /\ o \in TestIamPermissions(args)
    /\ outcome' = <<o>>
    /\ waited' = (~args.cancelled /\ ~connClosed)
    /\ IF hasWriter
       THEN /\ event' = <<TraceEvent(mode, args, o, ms, calls)>>
            /\ pc' = "emit"
            /\ result' = result
       ELSE /\ event' = <<>>
            /\ pc' = "done"
            /\ result' = <<Decide(mode, args, o)>>
    /\ UNCHANGED <<libVars, clientVars, connVars, threadVars, writerVars, deviceVars, args, emitErr, emitted,
                   outBefore, calls>>

\* c.traceWriter.Emit(event)
TraceEmit ==
    /\ pc = "emit"
    /\ LET r == WriterEmit(event[1])
       IN  /\ bwBuf' = r.s.buf
           /\ bwErr' = r.s.err
           /\ out' = r.s.out
           /\ emitErr' = r.err
           /\ emitted' = IF r.err THEN emitted ELSE Append(emitted, event[1])
    /\ pc' = "flush"
    /\ UNCHANGED <<libVars, clientVars, connVars, threadVars, deviceVars, wClosed, outClosed,
                   outCloses, args, outcome, waited,
                   event, outBefore, result, calls>>

\* c.traceWriter.Flush(), then the return of CheckPermission.
TraceFlush ==
    /\ pc = "flush"
    /\ LET r == WriterFlush
       IN  /\ bwBuf' = r.s.buf
           /\ bwErr' = r.s.err
           /\ out' = r.s.out
           /\ result' = <<ReturnAfterTrace(mode, args, outcome[1], emitErr, r.err)>>
    /\ pc' = "done"
    /\ UNCHANGED <<libVars, clientVars, connVars, threadVars, deviceVars, wClosed, outClosed,
                   outCloses, args, outcome, waited,
                   emitErr, event, emitted, outBefore, calls>>

\* Writer.Close on the client's trace writer.
TraceWriterClose ==
    /\ hasWriter
    /\ LET r == WriterClose
       IN  /\ bwBuf' = r.s.buf
           /\ bwErr' = r.s.err
           /\ out' = r.s.out
           /\ wClosed' = r.closed
           /\ outClosed' = r.outClosed
           /\ outCloses' = outCloses + (IF r.sinkClose THEN 1 ELSE 0)
    /\ UNCHANGED <<libVars, clientVars, connVars, threadVars, deviceVars, callVars>>

\* The device behind the sink starts to fail: the next write takes n chunks
\* and returns an error.
SinkFails(n) ==
    /\ hasWriter
    /\ sinkOK
    /\ sinkOK' = FALSE
    /\ shortN' = n
    /\ UNCHANGED <<libVars, clientVars, connVars, threadVars, writerVars, callVars>>

Next ==
    \/ \E p \in Principals, r \in Resources, q \in Permissions, c \in BOOLEAN :
          CheckPermissionCall(p, r, q, c)
    \/ \E ms \in 0..MaxLatency : \E o \in TestIamPermissions(args) :
          RemoteReturns(o, ms)
    \/ TraceEmit
    \/ TraceFlush
    \/ TraceWriterClose
    \/ \E n \in 0..MaxShort : SinkFails(n)

Spec == Init /\ [][Next]_vars

(***************************************************************************)
(* Client.Close.  grpc.ClientConn.Close returns ErrClientConnClosing when  *)
(* the connection is already closed.                                       *)
(***************************************************************************)
\* conn.Close(): [closed, err]
ConnClose == [closed |-> TRUE, err |-> connClosed]

\* Client.conn is set by NewClient and never reset, so the nil test passes
\* on every call.
ClientClose ==
    /\ hasClient
    /\ Len(closeRet) < MaxCloses
    /\ connClosed' = ConnClose.closed
    /\ closeRet' = Append(closeRet, ConnClose.err)
    /\ UNCHANGED <<libVars, clientVars, threadVars, writerVars, deviceVars, callVars>>

NextClient ==
    \/ Next
    \/ ClientClose

SpecClient == Init /\ [][NextClient]_vars

(***************************************************************************)
(* trace.Writer used by concurrent goroutines.  Each operation takes       *)
(* Writer.mu; Emit holds it across its two writes to the bufio.Writer,     *)
(* which are separate steps here.                                          *)
(***************************************************************************)
\* Events the goroutines emit: one authz_check and one authz_error.
WriterArgs == [principal |-> "user:alice@example.com", resource |-> "projects/p/secrets/s",
               permission |-> "secretmanager.secrets.get", cancelled |-> FALSE]
WriterEvents ==
    {TraceEvent(AuthModeStrict, WriterArgs, o, 0, 1) :
        o \in {Response(<<WriterArgs.permission>>),
               Failure(GrpcError("Unavailable",
                   "rpc error: code = Unavailable desc = connection refused"))}}

\* w.mu.Lock() returns only when no goroutine holds the mutex.
MutexFree_NoLock == TRUE

MutexFree == mu = NoThread

\* [op, err, closed]: the operation, whether it returned an error, and the
\* value of w.closed it read (FALSE on a nil writer, which reads nothing).
Return(op, err, closed) == <<[op |-> op, err |-> err, closed |-> closed]>>

\* Emit up to the closed check.
EmitBegin(t, ev) ==
    /\ tpc[t] = "idle"
    /\ IF ~hasWriter
       THEN /\ lastRet' = Return("Emit", FALSE, FALSE)
            /\ UNCHANGED <<mu, tpc, tev, started>>
       ELSE /\ MutexFree
            /\ IF wClosed
               THEN /\ lastRet' = Return("Emit", TRUE, TRUE)
                    /\ UNCHANGED <<mu, tpc, tev, started>>
               ELSE /\ Len(started) < MaxEmits
                    /\ mu' = t
                    /\ tpc' = [tpc EXCEPT ![t] = "write"]
                    /\ tev' = [tev EXCEPT ![t] = <<ev>>]
                    /\ started' = Append(started, ev)
                    /\ lastRet' = lastRet
    /\ UNCHANGED <<libVars, clientVars, connVars, writerVars, deviceVars, callVars, accepted>>

\* w.bw.Write(data)
EmitWrite(t) ==
    /\ tpc[t] = "write"
    /\ LET s1 == BufWrite(IoState, Bytes(Marshal(tev[t][1])))
       IN  /\ bwBuf' = s1.buf
           /\ bwErr' = s1.err
           /\ out' = s1.out
           /\ IF s1.err
              THEN /\ mu' = NoThread
                   /\ tpc' = [tpc EXCEPT ![t] = "idle"]
                   /\ tev' = [tev EXCEPT ![t] = <<>>]
                   /\ lastRet' = Return("Emit", TRUE, FALSE)
              ELSE /\ tpc' = [tpc EXCEPT ![t] = "newline"]
                   /\ UNCHANGED <<mu, tev, lastRet>>
    /\ UNCHANGED <<libVars, clientVars, connVars, deviceVars, callVars, wClosed, outClosed,
                   outCloses, started, accepted>>

\* w.bw.WriteByte('\n'), then the deferred Unlock.
EmitNewline(t) ==
    /\ tpc[t] = "newline"
    /\ LET r == BufWriteByte(IoState, Newline)
       IN  /\ bwBuf' = r.s.buf
           /\ bwErr' = r.s.err
           /\ out' = r.s.out
           /\ lastRet' = Return("Emit", r.err, FALSE)
           /\ accepted' = IF r.err THEN accepted ELSE Append(accepted, tev[t][1])
    /\ mu' = NoThread
    /\ tpc' = [tpc EXCEPT ![t] = "idle"]
    /\ tev' = [tev EXCEPT ![t] = <<>>]
    /\ UNCHANGED <<libVars, clientVars, connVars, deviceVars, callVars, wClosed, outClosed,
                   outCloses, started>>

\* Writer.Flush
Flush(t) ==
    /\ tpc[t] = "idle"
    /\ IF ~hasWriter
       THEN /\ lastRet' = Return("Flush", FALSE, FALSE)
            /\ UNCHANGED <<bwBuf, bwErr, out>>
       ELSE /\ MutexFree
            /\ LET r == WriterFlush
               IN  /\ bwBuf' = r.s.buf
                   /\ bwErr' = r.s.err
                   /\ out' = r.s.out
                   /\ lastRet' = Return("Flush", r.err, wClosed)
    /\ UNCHANGED <<libVars, clientVars, connVars, deviceVars, callVars, wClosed, outClosed,
                   outCloses, mu, tpc, tev, started, accepted>>

\* Writer.Close
Close(t) ==
    /\ tpc[t] = "idle"
    /\ IF ~hasWriter
       THEN /\ lastRet' = Return("Close", FALSE, FALSE)
            /\ UNCHANGED writerVars
       ELSE /\ MutexFree
            /\ LET r == WriterClose
               IN  /\ bwBuf' = r.s.buf
                   /\ bwErr' = r.s.err
                   /\ out' = r.s.out
                   /\ wClosed' = r.closed
                   /\ outClosed' = r.outClosed
                   /\ outCloses' = outCloses + (IF r.sinkClose THEN 1 ELSE 0)
                   /\ lastRet' = Return("Close", r.err, wClosed)
    /\ UNCHANGED <<libVars, clientVars, connVars, deviceVars, callVars, mu, tpc, tev, started,
                   accepted>>

\* The state NewWriterFromEnv leaves, no client being built.
InitWriter ==
    /\ traceOutput \in TraceOutputs
    /\ mode = AuthModeOff
    /\ host = ""
    /\ hasClient = FALSE
    /\ newClientErr = FALSE
    /\ hasWriter = NewWriterFromEnv(traceOutput).w
    /\ outIsStdout = NewWriterFromEnv(traceOutput).stdout
    /\ newWriterErr = NewWriterFromEnv(traceOutput).err
    /\ InitIdle

NextWriter ==
    \/ \E t \in Threads, ev \in WriterEvents : EmitBegin(t, ev)
    \/ \E t \in Threads : EmitWrite(t)
    \/ \E t \in Threads : EmitNewline(t)
    \/ \E t \in Threads : Flush(t)
    \/ \E t \in Threads : Close(t)
    \/ \E n \in 0..MaxShort : SinkFails(n)

SpecWriter == InitWriter /\ [][NextWriter]_vars

(***************************************************************************)
(* Package functions without state: each call records its argument and     *)
(* its result in libCall.                                                  *)
(***************************************************************************)
\* codes.Code values other than OK.
GrpcCodes ==
    {"Canceled", "Unknown", "InvalidArgument", "DeadlineExceeded", "NotFound",
     "AlreadyExists", "PermissionDenied", "ResourceExhausted", "FailedPrecondition",
     "Aborted", "OutOfRange", "Unimplemented", "Internal", "Unavailable", "DataLoss",
     "Unauthenticated"}

\* status.Error(code, msg): nil for codes.OK.
StatusError(code, msg) == IF code = "OK" THEN NoError ELSE GrpcError(code, msg)

\* Error values given to the classifiers.
ErrorValues ==
    {StatusError(c, "test") : c \in GrpcCodes \cup {"OK"}}
        \cup {PlainError("generic error")}

\* Strings given to ParseAuthMode.
ModeStrings ==
    {"permissive", "strict", "off", "PERMISSIVE", "STRICT", "OFF", "Permissive",
     "StRiCt", "  permissive", "strict  ", "  off  ", "\tStrict\n", "", " ", "invalid",
     "foobar", "permi", "strictly", "per missive"}

\* gRPC metadata of a context: the key-value pairs in the order they were
\* added; a context without metadata has none.
PrincipalMetadataKey == "x-emulator-principal"
OtherKey == "other-key"
MetadataKeys == {PrincipalMetadataKey, OtherKey}

\* metadata.MD.Get(key): the values stored under the key, in order.
Get(md, key) ==
    LET kv == SelectSeq(md, LAMBDA e : e[1] = ToLower(key))
    IN  [i \in 1..Len(kv) |-> kv[i][2]]

\* Inject that replaces the outgoing metadata by the principal alone.
InjectPrincipalToContext_Replace(ctx, principal) ==
    IF principal = "" THEN ctx
    ELSE <<<<PrincipalMetadataKey, principal>>>>

\* metadata.AppendToOutgoingContext adds the pair after the existing ones,
\* in a new context.
InjectPrincipalToContext(ctx, principal) ==
    IF principal = "" THEN ctx
    ELSE Append(ctx, <<PrincipalMetadataKey, principal>>)

\* The outgoing metadata of the caller is the incoming metadata of the
\* server.
Incoming(ctx) == ctx

ExtractPrincipalFromContext(ctx) ==
    LET principals == Get(ctx, PrincipalMetadataKey)
    IN  IF Len(principals) = 0 THEN "" ELSE principals[1]

\* Outgoing metadata of the contexts given to InjectPrincipalToContext.
Contexts ==
    {<<>>,
     <<<<OtherKey, "other-value">>>>,
     <<<<PrincipalMetadataKey, "user:mallory@example.com">>>>,
     <<<<OtherKey, "other-value">>, <<PrincipalMetadataKey, "user:mallory@example.com">>>>,
     <<<<PrincipalMetadataKey, "user:mallory@example.com">>, <<OtherKey, "other-value">>,
       <<OtherKey, "second-value">>>>}

InjectedPrincipals ==
    {"", "user:alice@example.com", "serviceAccount:sa@project.iam.gserviceaccount.com"}

\* Events given to ValidateEvent: every combination of present, absent,
\* blank and unexpected values of the members it reads.
ValidatorEvents ==
    [SchemaVersion : {"", SchemaV1_0, "2.0"},
     EventType : {"", EventTypeAuthzCheck, EventTypeAuthzError, "authz_other"},
     Timestamp : {"", "2026-01-02T03:04:05Z"},
     Actor : {Nil} \cup {Ptr([Principal |-> x]) : x \in {"", " ", "user:alice@example.com"}},
     Target : {Nil} \cup {Ptr([Resource |-> x]) : x \in {"\t", "projects/p/secrets/s"}},
     Action : {Nil} \cup {Ptr([Permission |-> x, Method |-> ""]) :
                              x \in {"", "secretmanager.secrets.get"}},
     Decision : {Nil} \cup {Ptr([Outcome |-> x, Reason |-> "", EvaluatedBy |-> "",
                                 LatencyMS |-> 0]) :
                                x \in {"", OutcomeAllow, OutcomeDeny, "MAYBE", "allow"}},
     Environment : {Nil},
     Error : {Nil} \cup {Ptr([Kind |-> k, Message |-> m, Retryable |-> FALSE]) :
                            k \in {"", "policy_error"}, m \in {" ", "denied"}}]

RECURSIVE Double(_, _)
\* str repeated 2^k times.
Double(str, k) == IF k = 0 THEN str ELSE Double(str \o str, k - 1)

\* A resource name of 64 KiB.
LongResource == Double("projects/p/secrets/0123456789abcdef/", 11)

\* Events written to trace files: a minimal authz_check and authz_error, an
\* authz_check whose outcome is not in the schema, and an authz_check on
\* the long resource.
FileEvent(type, res, oc) ==
    [SchemaVersion |-> SchemaV1_0,
     EventType |-> type,
     Timestamp |-> "2026-01-27T18:03:12.483Z",
     Actor |-> IF type = EventTypeAuthzCheck
               THEN Ptr([Principal |-> "user:test@example.com"]) ELSE Nil,
     Target |-> IF type = EventTypeAuthzCheck THEN Ptr([Resource |-> res]) ELSE Nil,
     Action |-> IF type = EventTypeAuthzCheck
                THEN Ptr([Permission |-> "secretmanager.secrets.get", Method |-> ""])
                ELSE Nil,
     Decision |-> IF type = EventTypeAuthzCheck
                  THEN Ptr([Outcome |-> oc, Reason |-> "", EvaluatedBy |-> "",
                            LatencyMS |-> 0])
                  ELSE Nil,
     Environment |-> Nil,
     Error |-> IF type = EventTypeAuthzError
               THEN Ptr([Kind |-> "iam_unreachable", Message |-> "connection refused",
                         Retryable |-> TRUE])
               ELSE Nil]

CheckLineEvent == FileEvent(EventTypeAuthzCheck, "projects/test/secrets/foo", OutcomeAllow)
ErrorLineEvent == FileEvent(EventTypeAuthzError, "", "")
InvalidLineEvent == FileEvent(EventTypeAuthzCheck, "projects/test/secrets/foo", "INVALID")
LongLineEvent == FileEvent(EventTypeAuthzCheck, LongResource, OutcomeDeny)

\* Kinds of lines of the files given to ValidateJSONLFile, and their bytes.
LineKinds ==
    {"check", "error", "indented", "invalid", "truncated", "blank", "spaces", "long"}

LineBytes(kind) ==
    CASE kind = "check" -> Line(Marshal(CheckLineEvent))
      [] kind = "error" -> Line(Marshal(ErrorLineEvent))
      [] kind = "indented" -> <<Space>> \o Line(Marshal(CheckLineEvent))
      [] kind = "invalid" -> Line(Marshal(InvalidLineEvent))
      [] kind = "truncated" -> <<DataChunk(Marshal(CheckLineEvent), 1), Newline>>
      [] kind = "blank" -> <<Newline>>
      [] kind = "spaces" -> <<Space, Newline>>
      [] kind = "long" -> Line(Marshal(LongLineEvent))

RECURSIVE FileBytes(_)
FileBytes(kinds) ==
    IF kinds = <<>> THEN <<>>
    ELSE LineBytes(Head(kinds)) \o FileBytes(Tail(kinds))

\* The sequences of at most n elements of S.
SeqsUpTo(S, n) == UNION {[1..k -> S] : k \in 0..n}

\* The content of a file of the given lines whose last line ends, or not,
\* with a newline.
FileData(kinds, newlineAtEnd) ==
    IF newlineAtEnd \/ kinds = <<>> THEN FileBytes(kinds)
    ELSE SubSeq(FileBytes(kinds), 1, Len(FileBytes(kinds)) - 1)

\* Files given to ValidateJSONLFile: plain and gzip-compressed files of up
\* to MaxLines lines, a path that does not exist, and a plain file under a
\* .gz name.
TraceFiles ==
    {[name |-> n, exists |-> TRUE, gzip |-> (n = "trace.jsonl.gz"), kinds |-> k,
      newlineAtEnd |-> e] :
        n \in {"trace.jsonl", "trace.jsonl.gz"}, k \in SeqsUpTo(LineKinds, MaxLines),
        e \in BOOLEAN}
    \cup {[name |-> "missing.jsonl", exists |-> FALSE, gzip |-> FALSE, kinds |-> <<>>,
           newlineAtEnd |-> TRUE],
          [name |-> "plain.gz", exists |-> TRUE, gzip |-> FALSE, kinds |-> <<"check">>,
           newlineAtEnd |-> TRUE]}

\* The file as openMaybeGzip sees it.
FileOf(a) ==
    [name |-> a.name, exists |-> a.exists, gzip |-> a.gzip,
     data |-> FileData(a.kinds, a.newlineAtEnd)]

\* Events emitted before the file is read back: each passes ValidateEvent.
RoundTripEvents == {CheckLineEvent, ErrorLineEvent, LongLineEvent}

\* Writer.Emit on the io state s of an open writer.
EmitTo(s, ev) ==
    LET s1 == BufWrite(s, Bytes(Marshal(ev)))
    IN  IF s1.err THEN s1 ELSE BufWriteByte(s1, Newline).s

RECURSIVE EmitAll(_, _)
EmitAll(s, evs) ==
    IF evs = <<>> THEN s ELSE EmitAll(EmitTo(s, Head(evs)), Tail(evs))

\* The content of a new file after Emit of each of evs, then Flush.
EmittedFile(evs) == BufFlush(EmitAll([buf |-> <<>>, err |-> FALSE, out |-> <<>>], evs)).out

\* The events the lines of a file decode to (none for a line that is not
\* valid JSON).
DecodedLines(data) ==
    [i \in 1..Len(ScanLines(data)) |-> Unmarshal(TrimChunks(ScanLines(data)[i])).ev]

\* A call of fn on arg that has not run yet.
Pending(fn, arg) == [fn |-> fn, arg |-> arg, done |-> FALSE, ret |-> <<>>]

\* The call in libCall, a call of fn, runs and returns ret.
LibCall(fn, ret) ==
    /\ libCall.fn = fn
    /\ ~libCall.done
    /\ libCall' = [libCall EXCEPT !.done = TRUE, !.ret = ret]
    /\ UNCHANGED <<clientVars, connVars, threadVars, writerVars, deviceVars, callVars>>

\* IsConnectivityError(err) and IsConfigError(err) on the same error.
ClassifyError ==
    LibCall("ClassifyError",
            [connectivity |-> IsConnectivityError(libCall.arg),
             config |-> IsConfigError(libCall.arg)])

\* ParseAuthMode(str), and IsEnabled on the mode it returns.
ParseAuthModeCall ==
    LibCall("ParseAuthMode",
            [mode |-> ParseAuthMode(libCall.arg),
             enabled |-> IsEnabled(ParseAuthMode(libCall.arg))])

\* InjectPrincipalToContext(ctx, principal): the context returned and the
\* caller's context after the call.
InjectPrincipalToContextCall ==
    LibCall("InjectPrincipalToContext",
            [ctx |-> InjectPrincipalToContext(libCall.arg.ctx, libCall.arg.principal),
             callerCtx |-> libCall.arg.ctx])

\* CheckPermission injects the principal and the server extracts it from
\* the metadata it receives.
InjectThenExtract ==
    LibCall("InjectThenExtract",
            ExtractPrincipalFromContext(
                Incoming(InjectPrincipalToContext(libCall.arg.ctx, libCall.arg.principal))))

\* NewValidator().ValidateEvent(&ev)
ValidateEventCall == LibCall("ValidateEvent", ValidateEvent(libCall.arg))

\* NewValidator().ValidateJSONLFile(path)
ValidateJSONLFileCall ==
    LibCall("ValidateJSONLFile", ValidateJSONLFile(FileOf(libCall.arg)))

\* The events are emitted to a new file, flushed, and the file (or its
\* gzip-compressed copy under a .gz name) is given to ValidateJSONLFile.
EmitThenValidate ==
    LibCall("EmitThenValidate",
            LET data == EmittedFile(libCall.arg.events)
                f == [name |-> IF libCall.arg.gzip THEN "authz.jsonl.gz" ELSE "authz.jsonl",
                      exists |-> TRUE, gzip |-> libCall.arg.gzip, data |-> data]
            IN  [result |-> ValidateJSONLFile(f), decoded |-> DecodedLines(data)])

\* The calls made, each on one of its inputs.
LibCalls ==
    {Pending("ClassifyError", err) : err \in ErrorValues}
    \cup {Pending("ParseAuthMode", str) :
              str \in ModeStrings \cup {String(m) : m \in AuthModes}}
    \cup {Pending(fn, [ctx |-> ctx, principal |-> q]) :
              fn \in {"InjectPrincipalToContext", "InjectThenExtract"},
              ctx \in Contexts, q \in InjectedPrincipals}
    \cup {Pending("ValidateEvent", ev) : ev \in ValidatorEvents}
    \cup {Pending("ValidateJSONLFile", f) : f \in TraceFiles}
    \cup {Pending("EmitThenValidate", [events |-> evs, gzip |-> z]) :
              evs \in SeqsUpTo(RoundTripEvents, MaxLines), z \in BOOLEAN}

\* No client and no writer are built; one call is about to be made.
InitLib ==
    /\ traceOutput = ""
    /\ mode = AuthModeOff
    /\ host = ""
    /\ hasClient = FALSE
    /\ newClientErr = FALSE
    /\ hasWriter = FALSE
    /\ outIsStdout = FALSE
    /\ newWriterErr = FALSE
    /\ InitCall
    /\ libCall \in LibCalls

NextLib ==
    \/ ClassifyError
    \/ ParseAuthModeCall
    \/ InjectPrincipalToContextCall
    \/ InjectThenExtract
    \/ ValidateEventCall
    \/ ValidateJSONLFileCall
    \/ EmitThenValidate

SpecLib == InitLib /\ [][NextLib]_vars

(***************************************************************************)
(* Properties of the decision core.                                        *)
(***************************************************************************)
ConnectivityCodes == {"Unavailable", "DeadlineExceeded", "Canceled"}
ConfigCodes == {"InvalidArgument", "Internal", "Unimplemented"}

Returned == pc = "done"
RemoteFailed == outcome[1].err # NoError
RemoteSucceeded == outcome[1].err = NoError
RemoteCode == StatusCode(outcome[1].err)

\* The trace writer exists, is open and has met no write error.
WriterActive == hasWriter /\ ~wClosed /\ ~bwErr

\* C1: in permissive mode a call whose remote call fails with Unavailable,
\* DeadlineExceeded or Canceled returns (true, nil).
C1_PermissiveFailOpen ==
    (Returned /\ mode = AuthModePermissive /\ RemoteCode \in ConnectivityCodes)
        => result[1] = Result(TRUE, NoError)

C1_Witness ==
    /\ Returned
    /\ mode = AuthModePermissive
    /\ RemoteCode = "Canceled"
    /\ result[1] = Result(TRUE, NoError)

\* C2: in strict or off mode a call whose remote call fails with a
\* connectivity code returns (false, err) with err the remote call's own
\* error, which IsConnectivityError classifies as connectivity.
C2_StrictOffFailClosed ==
    (Returned /\ mode \in {AuthModeStrict, AuthModeOff}
              /\ RemoteCode \in ConnectivityCodes)
        => /\ result[1] = Result(FALSE, outcome[1].err)
           /\ IsConnectivityError(result[1].err)

C2_Witness ==
    /\ Returned
    /\ mode = AuthModeOff
    /\ RemoteCode = "Unavailable"
    /\ result[1] = Result(FALSE, outcome[1].err)

\* C3: in every mode a call whose remote call fails with a code outside the
\* connectivity set returns (false, original error); permissive mode does
\* not fail open on it.
C3_OtherErrorsDeny ==
    (Returned /\ RemoteFailed /\ RemoteCode \notin ConnectivityCodes)
        => result[1] = Result(FALSE, outcome[1].err)

C3_Witness ==
    /\ Returned
    /\ mode = AuthModePermissive
    /\ RemoteCode = "PermissionDenied"
    /\ result[1] = Result(FALSE, outcome[1].err)

\* C4 as stated: after a successful remote call, allowed is true exactly
\* when the returned permissions are exactly the requested permission.
C4_AllowedIffRequestedReturned ==
    (Returned /\ RemoteSucceeded)
        => (result[1].allowed <=> outcome[1].perms = <<args.permission>>)

\* C4 amended: after a successful remote call, allowed is true exactly when
\* the returned permission list has exactly one element, whichever
\* permission it names.
C4_AllowedIffOneReturned ==
    (Returned /\ RemoteSucceeded)
        => (result[1].allowed <=> Len(outcome[1].perms) = 1)

C4_Witness ==
    /\ Returned
    /\ RemoteSucceeded
    /\ outcome[1].perms = <<OtherPermission>>
    /\ args.permission # OtherPermission
    /\ result[1].allowed

\* C5: a successful remote call returns a nil error, and with an empty
\* granted list it returns (false, nil), in every mode.
C5_EmptyGrantDeniesWithoutError ==
    (Returned /\ RemoteSucceeded)
        => /\ result[1].err = NoError
           /\ outcome[1].perms = <<>> => result[1] = Result(FALSE, NoError)

C5_Witness ==
    /\ Returned
    /\ mode = AuthModePermissive
    /\ RemoteSucceeded
    /\ outcome[1].perms = <<>>
    /\ result[1] = Result(FALSE, NoError)

\* C6 as stated: allowed = true comes only with a nil error and only when
\* the remote call succeeded and granted the requested permission, or the
\* mode is permissive and the remote call failed with a connectivity error;
\* in strict or off mode allowed = true implies the remote call succeeded;
\* no result is (true, non-nil error).
C6_AllowedOnlyIfGrantedOrFailOpen ==
    Returned
        => /\ result[1].allowed
                => /\ result[1].err = NoError
                   /\ \/ /\ RemoteSucceeded
                         /\ \E i \in 1..Len(outcome[1].perms) :
                               outcome[1].perms[i] = args.permission
                      \/ /\ mode = AuthModePermissive
                         /\ RemoteCode \in ConnectivityCodes
           /\ (result[1].allowed /\ mode # AuthModePermissive) => RemoteSucceeded
           /\ result[1] \in {Result(TRUE, NoError), Result(FALSE, NoError)}
                 \/ (~result[1].allowed /\ result[1].err # NoError)

\* C6 amended: allowed = true comes only with a nil error and only when the
\* remote call succeeded and returned exactly one permission, or the mode is
\* permissive and the remote call failed with a connectivity error; in
\* strict or off mode allowed = true implies the remote call succeeded; no
\* result is (true, non-nil error).
C6_AllowedOnlyIfOneReturnedOrFailOpen ==
    Returned
        => /\ result[1].allowed
                => /\ result[1].err = NoError
                   /\ \/ RemoteSucceeded /\ Len(outcome[1].perms) = 1
                      \/ /\ mode = AuthModePermissive
                         /\ RemoteCode \in ConnectivityCodes
           /\ (result[1].allowed /\ mode # AuthModePermissive) => RemoteSucceeded
           /\ result[1] \in {Result(TRUE, NoError), Result(FALSE, NoError)}
                 \/ (~result[1].allowed /\ result[1].err # NoError)

C6_Witness ==
    /\ Returned
    /\ mode = AuthModeStrict
    /\ result[1] = Result(TRUE, NoError)
    /\ RemoteSucceeded
    /\ outcome[1].perms = <<OtherPermission>>

\* C7: a call made with an already-cancelled context on a strict-mode client
\* returns (false, err), err non-nil and classified as connectivity by
\* IsConnectivityError, without having waited for the transport's answer.
C7_CancelledStrictDenies ==
    (Returned /\ args.cancelled /\ mode = AuthModeStrict)
        => /\ ~result[1].allowed
           /\ result[1].err # NoError
           /\ IsConnectivityError(result[1].err)
           /\ ~waited

C7_Witness ==
    /\ Returned
    /\ args.cancelled
    /\ mode = AuthModeStrict
    /\ result[1].err # NoError
    /\ StatusCode(result[1].err) = "Canceled"

\* C8: whatever the trace writer's state (absent, active, closed, failing),
\* the traced CheckPermission returns what the untraced CheckPermission
\* returns for the same mode and remote outcome.
C8_TracingObservational ==
    Returned => result[1] = CheckPermissionUntraced(mode, outcome[1])

C8_Witness ==
    /\ Returned
    /\ hasWriter
    /\ emitErr
    /\ wClosed
    /\ result[1] = Result(TRUE, NoError)

\* C9: with an active trace writer, a call whose remote call succeeds emits
\* exactly one event, an authz_check whose outcome is ALLOW iff the call
\* returns allowed (DENY otherwise), whose reason is binding_match iff the
\* outcome is ALLOW (no_matching_binding otherwise) and whose principal,
\* resource, permission and mode are the call's and the client's; no
\* authz_error is emitted, and the sink receives that one line.
C9_SuccessEmitsOneCheckEvent ==
    (Returned /\ WriterActive /\ RemoteSucceeded)
        => /\ Len(emitted) = 1
           /\ LET e == emitted[1]
              IN  /\ e.EventType = EventTypeAuthzCheck
                  /\ e.Error = Nil
                  /\ e.Decision # Nil
                  /\ e.Decision[1].Outcome =
                        (IF result[1].allowed THEN OutcomeAllow ELSE OutcomeDeny)
                  /\ e.Decision[1].Reason =
                        (IF e.Decision[1].Outcome = OutcomeAllow
                         THEN "binding_match" ELSE "no_matching_binding")
                  /\ e.Actor = Ptr([Principal |-> args.principal])
                  /\ e.Target = Ptr([Resource |-> args.resource])
                  /\ e.Action # Nil
                  /\ e.Action[1].Permission = args.permission
                  /\ e.Environment # Nil
                  /\ e.Environment[1].Mode = mode
                  /\ out = outBefore \o Line(Marshal(e))
                  /\ <<"event_type", EventTypeAuthzError>> \notin Marshal(e)

C9_Witness ==
    /\ Returned
    /\ WriterActive
    /\ RemoteSucceeded
    /\ result[1].allowed
    /\ Len(emitted) = 1
    /\ emitted[1].Decision[1].Outcome = OutcomeAllow
    /\ Len(out) = DataChunks + 1

\* C10: with an active trace writer, a call whose remote call fails emits
\* exactly one event, an authz_error whose (kind, retryable) is
\* (iam_unreachable, true) for a connectivity code, (invalid_request, false)
\* for a configuration code and (policy_error, false) otherwise, in every
\* mode; a fail-open result goes with kind iam_unreachable only.
C10_FailureEmitsOneErrorEvent ==
    (Returned /\ WriterActive /\ RemoteFailed)
        => /\ Len(emitted) = 1
           /\ LET e == emitted[1]
              IN  /\ e.EventType = EventTypeAuthzError
                  /\ e.Error # Nil
                  /\ <<e.Error[1].Kind, e.Error[1].Retryable>> =
                        (IF RemoteCode \in ConnectivityCodes
                         THEN <<"iam_unreachable", TRUE>>
                         ELSE IF RemoteCode \in ConfigCodes
                         THEN <<"invalid_request", FALSE>>
                         ELSE <<"policy_error", FALSE>>)
                  /\ (e.Error[1].Kind = "iam_unreachable")
                        <=> IsConnectivityError(outcome[1].err)
                  /\ result[1].allowed => e.Error[1].Kind = "iam_unreachable"
                  /\ out = outBefore \o Line(Marshal(e))

C10_Witness ==
    /\ Returned
    /\ WriterActive
    /\ RemoteCode = "Internal"
    /\ Len(emitted) = 1
    /\ emitted[1].Error[1].Kind = "invalid_request"
    /\ Len(out) = DataChunks + 1

SchemaInvariant(e) ==
    /\ e.SchemaVersion # ""
    /\ e.EventType \in {EventTypeAuthzCheck, EventTypeAuthzError}
    /\ e.EventType = EventTypeAuthzCheck
         => /\ e.Actor # Nil /\ e.Actor[1].Principal # ""
            /\ e.Target # Nil /\ e.Target[1].Resource # ""
            /\ e.Action # Nil /\ e.Action[1].Permission # ""
            /\ e.Decision # Nil
            /\ e.Decision[1].Outcome \in {OutcomeAllow, OutcomeDeny}
    /\ e.EventType = EventTypeAuthzError
         => /\ e.Error # Nil
            /\ e.Error[1].Kind # ""
            /\ e.Error[1].Message # ""

\* C12: every event CheckPermission emits satisfies the schema invariant and
\* is accepted by ValidateEvent, for every principal (the empty one
\* included), resource, permission, mode and remote outcome.
C12_EmittedEventsValid ==
    \A i \in 1..Len(emitted) :
        /\ SchemaInvariant(emitted[i])
        /\ ValidateEvent(emitted[i]) = NoError

RECURSIVE ConcatLines(_)
\* The lines of the events evs, one after the other.
ConcatLines(evs) ==
    IF evs = <<>> THEN <<>>
    ELSE Line(Marshal(Head(evs))) \o ConcatLines(Tail(evs))

IsPrefix(a, b) == Len(a) <= Len(b) /\ a = SubSeq(b, 1, Len(a))

NoEmitInProgress == \A t \in Threads : tpc[t] = "idle"

\* C14 as stated: under every interleaving of Emit and Flush calls the sink
\* content is always a concatenation of complete lines, one per emitted
\* event, in the order the Emit calls took the mutex.
C14_SinkAlwaysCompleteLines ==
    hasWriter =>
        \E k \in 0..Len(started) : out = ConcatLines(SubSeq(started, 1, k))

\* C14 amended: the bytes handed to the writer (sink content followed by
\* the buffer) are always a prefix of the lines of the events given to Emit,
\* in the order the Emit calls took the mutex, so no two events' bytes
\* interleave; while no write has failed and no Emit is in progress they are
\* exactly the lines of the successfully emitted events, each once; and
\* right after a Flush that returned nil on an open writer the sink holds
\* exactly those lines.
C14_SinkIsPrefixOfCompleteLines ==
    hasWriter =>
        /\ IsPrefix(out \o bwBuf, ConcatLines(started))
        /\ (~bwErr /\ NoEmitInProgress) => out \o bwBuf = ConcatLines(accepted)
        /\ (NoEmitInProgress /\ lastRet = Return("Flush", FALSE, FALSE))
              => /\ bwBuf = <<>>
                 /\ out = ConcatLines(accepted)

\* Two goroutines have emitted different events, the buffer has overflowed
\* into the sink, and a third Emit is holding the mutex.
C14_Witness ==
    /\ hasWriter
    /\ Len(accepted) = 2
    /\ accepted[1] # accepted[2]
    /\ out # <<>>
    /\ \E t \in Threads : tpc[t] = "newline" /\ mu = t

(***************************************************************************)
(* Properties of closing and construction.                                 *)
(***************************************************************************)
\* C15: for a client returned by NewClient, every Client.Close that follows
\* a first Close that returned nil returns nil too.
C15_SecondCloseReturnsNil ==
    (hasClient /\ Len(closeRet) >= 2 /\ ~closeRet[1])
        => \A i \in 2..Len(closeRet) : ~closeRet[i]

\* The last Writer operation to return was op, entered with w.closed = c.
Returns(op, c) == lastRet # <<>> /\ lastRet[1].op = op /\ lastRet[1].closed = c

\* C16: Writer.Close is idempotent.  A Close that finds the writer closed
\* returns nil, writes nothing and does not close the sink, so the sink is
\* closed at most once; and no operation clears the closed flag.
C16_CloseIdempotent ==
    /\ [](hasWriter => /\ outCloses <= 1
                       /\ Returns("Close", TRUE) => ~lastRet[1].err)
    /\ [][hasWriter =>
            /\ wClosed => wClosed'
            /\ (lastRet' # lastRet /\ lastRet' # <<>> /\ lastRet'[1].op = "Close"
                    /\ lastRet'[1].closed)
                 => UNCHANGED <<out, bwBuf, bwErr, outClosed, outCloses>>]_vars

\* A second Close has returned nil on a file-backed writer whose first Close
\* flushed an event and closed the file.
C16_Witness ==
    /\ hasWriter /\ ~outIsStdout
    /\ Returns("Close", TRUE)
    /\ ~lastRet[1].err
    /\ outCloses = 1
    /\ outClosed
    /\ out # <<>>

\* C17: an Emit that finds the writer closed returns an error and a Flush
\* that finds it closed returns nil; once Close has been called no operation
\* changes the buffer or writes to the sink, whatever the interleaving of
\* Emit, Flush and Close, and the sink is never closed before the writer is.
C17_ClosedWriterRejectsWrites ==
    /\ [](hasWriter => /\ Returns("Emit", TRUE) => lastRet[1].err
                       /\ Returns("Flush", TRUE) => ~lastRet[1].err
                       /\ outClosed => wClosed)
    /\ [][(hasWriter /\ wClosed) => UNCHANGED <<out, bwBuf, bwErr>>]_vars

\* An Emit has failed fast on a writer whose Close flushed an event and
\* closed the file.
C17_Witness ==
    /\ hasWriter /\ wClosed /\ outClosed
    /\ Returns("Emit", TRUE)
    /\ lastRet[1].err
    /\ out = ConcatLines(accepted)
    /\ Len(accepted) >= 1

\* C18: once Close has been called, every buffered event the sink accepted
\* has been flushed, and the underlying sink is closed if and only if it is
\* not the standard output; a writer for destination stdout never closes
\* the standard output.
C18_CloseFlushesAndClosesUnlessStdout ==
    hasWriter =>
        /\ (wClosed /\ ~bwErr) => bwBuf = <<>>
        /\ wClosed => (outClosed <=> ~outIsStdout)
        /\ outIsStdout => (~outClosed /\ outCloses = 0)

\* The part of C18 about the standard output, which holds.
C18_StdoutNeverClosed ==
    (hasWriter /\ outIsStdout) => (~outClosed /\ outCloses = 0)

\* C19: with IAM_TRACE_OUTPUT unset or empty NewWriterFromEnv returns a nil
\* writer and no error; and every Emit, Flush and Close on a nil writer, in
\* any order and number, returns nil and changes nothing but the caller's
\* return value.
C19_DisabledWriterIsNoOp ==
    /\ [](/\ traceOutput = "" => (~hasWriter /\ ~newWriterErr)
          /\ (~hasWriter /\ lastRet # <<>>) => ~lastRet[1].err)
    /\ [][~hasWriter =>
            UNCHANGED <<libVars, clientVars, connVars, writerVars, deviceVars, callVars, mu,
                        tpc, tev, started, accepted>>]_vars

\* A Close has returned nil on the nil writer that NewWriterFromEnv returns
\* for an empty variable, and nothing has been written or closed.
C19_Witness ==
    /\ traceOutput = ""
    /\ ~hasWriter /\ ~newWriterErr
    /\ lastRet = Return("Close", FALSE, FALSE)
    /\ out = <<>> /\ bwBuf = <<>> /\ ~wClosed /\ ~outClosed

\* The trace destination names a file that cannot be opened.
SinkCannotBeOpened ==
    traceOutput # "" /\ ToLower(traceOutput) # "stdout" /\ ~CanOpen(traceOutput)

\* C20: when the trace file cannot be opened, NewWriter returns an error and
\* no writer, and NewClient, given a valid target, returns an error and no
\* client.
C20_OpenFailureSurfaced ==
    SinkCannotBeOpened =>
        /\ NewWriter(traceOutput).err /\ ~NewWriter(traceOutput).w
        /\ ValidTarget(host) => (newClientErr /\ ~hasClient)

\* The part of C20 about NewWriter and NewWriterFromEnv, which holds.
C20_NewWriterSurfacesOpenFailure ==
    SinkCannotBeOpened =>
        /\ NewWriter(traceOutput).err /\ ~NewWriter(traceOutput).w
        /\ ValidTarget(host) => (newWriterErr /\ ~hasWriter)

(***************************************************************************)
(* Properties of the package functions.                                    *)
(***************************************************************************)
Called(fn) == libCall.fn = fn /\ libCall.done

\* C21: IsConnectivityError holds exactly for the codes Unavailable,
\* DeadlineExceeded and Canceled, IsConfigError exactly for InvalidArgument,
\* Internal and Unimplemented; no error satisfies both, and nil, a non-gRPC
\* error, OK, PermissionDenied, NotFound and Unauthenticated satisfy
\* neither.
C21_ClassifierBuckets ==
    Called("ClassifyError") =>
        LET e == libCall.arg
            code == IF e = NoError THEN "OK"
                    ELSE IF e[1].grpc THEN e[1].code ELSE "Unknown"
        IN  /\ libCall.ret.connectivity <=> code \in ConnectivityCodes
            /\ libCall.ret.config <=> code \in ConfigCodes
            /\ ~(libCall.ret.connectivity /\ libCall.ret.config)
            /\ (e = NoError \/ ~e[1].grpc
                  \/ code \in {"OK", "PermissionDenied", "NotFound", "Unauthenticated"})
                 => (~libCall.ret.connectivity /\ ~libCall.ret.config)

\* Unimplemented has been classified: a configuration error, not a
\* connectivity error.
C21_Witness ==
    /\ Called("ClassifyError")
    /\ libCall.arg = StatusError("Unimplemented", "test")
    /\ libCall.ret.config
    /\ ~libCall.ret.connectivity

PermissiveSpellings == {"permissive", "PERMISSIVE", "Permissive", "  permissive"}
StrictSpellings == {"strict", "STRICT", "StRiCt", "strict  ", "\tStrict\n"}

\* C22: ParseAuthMode yields permissive for the spellings of "permissive"
\* (any case, surrounding whitespace), strict for those of "strict", off for
\* every other string; IsEnabled of the result is true exactly for those
\* spellings; and parsing m.String() gives back m.
C22_ParseAuthMode ==
    Called("ParseAuthMode") =>
        /\ libCall.ret.mode =
              IF libCall.arg \in PermissiveSpellings THEN AuthModePermissive
              ELSE IF libCall.arg \in StrictSpellings THEN AuthModeStrict
              ELSE AuthModeOff
        /\ libCall.ret.enabled <=> libCall.arg \in PermissiveSpellings \cup StrictSpellings
        /\ libCall.arg \in {"off", "permissive", "strict"} => libCall.ret.mode = libCall.arg

\* A mixed-case spelling with surrounding whitespace has parsed to strict.
C22_Witness ==
    /\ Called("ParseAuthMode")
    /\ libCall.arg = "\tStrict\n"
    /\ libCall.ret.mode = AuthModeStrict
    /\ libCall.ret.enabled

\* The values a metadata list holds under key k, in order.
ValuesUnder(md, k) ==
    LET kv == SelectSeq(md, LAMBDA e : e[1] = k)
    IN  [i \in 1..Len(kv) |-> kv[i][2]]

\* C23: with an empty principal InjectPrincipalToContext returns the context
\* it was given; with a non-empty one the returned context holds the
\* principal under x-emulator-principal, every other key keeps its values,
\* and the caller's context is what it was.
C23_InjectFrame ==
    Called("InjectPrincipalToContext") =>
        LET a == libCall.arg
            r == libCall.ret
        IN  /\ r.callerCtx = a.ctx
            /\ a.principal = "" => r.ctx = a.ctx
            /\ a.principal # "" =>
                  /\ \E i \in 1..Len(r.ctx) : r.ctx[i] = <<"x-emulator-principal", a.principal>>
                  /\ Len(r.ctx) = Len(a.ctx) + 1
                  /\ \A k \in MetadataKeys \ {"x-emulator-principal"} :
                        ValuesUnder(r.ctx, k) = ValuesUnder(a.ctx, k)

\* A principal has been injected into a context that carried two values
\* under another key.
C23_Witness ==
    /\ Called("InjectPrincipalToContext")
    /\ libCall.arg.principal = "user:alice@example.com"
    /\ Len(ValuesUnder(libCall.arg.ctx, "other-key")) = 2
    /\ ValuesUnder(libCall.ret.ctx, "other-key") = <<"other-value", "second-value">>
    /\ libCall.ret.ctx # libCall.arg.ctx

\* C24: after InjectPrincipalToContext(ctx, p) with non-empty p, for any
\* starting context, the server's ExtractPrincipalFromContext yields p.
C24_ExtractYieldsInjected ==
    (Called("InjectThenExtract") /\ libCall.arg.principal # "")
        => libCall.ret = libCall.arg.principal

\* The part of C24 that holds: it yields p when the starting context has no
\* value under x-emulator-principal.
C24_ExtractYieldsInjectedOnFreshKey ==
    (Called("InjectThenExtract") /\ libCall.arg.principal # ""
        /\ ValuesUnder(libCall.arg.ctx, "x-emulator-principal") = <<>>)
        => libCall.ret = libCall.arg.principal

\* Strings of the model that are empty or all whitespace.
BlankStrings == {"", " ", "\t"}

\* C25: ValidateEvent returns nil exactly when schema_version is "1.0",
\* event_type is authz_check or authz_error, timestamp is non-empty and the
\* members of the type hold: for authz_check a non-blank actor.principal,
\* target.resource and action.permission and a decision.outcome of ALLOW or
\* DENY; for authz_error a non-blank error.kind and error.message.  Every
\* other event is rejected with an error.
C25_ValidateEventExact ==
    Called("ValidateEvent") =>
        LET e == libCall.arg
        IN  (libCall.ret = NoError) <=>
               /\ e.SchemaVersion = "1.0"
               /\ e.EventType \in {"authz_check", "authz_error"}
               /\ e.Timestamp # ""
               /\ e.EventType = "authz_check" =>
                     /\ e.Actor # Nil /\ e.Actor[1].Principal \notin BlankStrings
                     /\ e.Target # Nil /\ e.Target[1].Resource \notin BlankStrings
                     /\ e.Action # Nil /\ e.Action[1].Permission \notin BlankStrings
                     /\ e.Decision # Nil /\ e.Decision[1].Outcome \in {"ALLOW", "DENY"}
               /\ e.EventType = "authz_error" =>
                     /\ e.Error # Nil
                     /\ e.Error[1].Kind \notin BlankStrings
                     /\ e.Error[1].Message \notin BlankStrings

\* A well-formed authz_check whose outcome is neither ALLOW nor DENY has
\* been rejected.
C25_Witness ==
    /\ Called("ValidateEvent")
    /\ libCall.arg.SchemaVersion = "1.0"
    /\ libCall.arg.EventType = "authz_check"
    /\ libCall.arg.Timestamp # ""
    /\ libCall.arg.Actor = Ptr([Principal |-> "user:alice@example.com"])
    /\ libCall.arg.Target = Ptr([Resource |-> "projects/p/secrets/s"])
    /\ libCall.arg.Action # Nil /\ libCall.arg.Action[1].Permission # ""
    /\ libCall.arg.Decision # Nil /\ libCall.arg.Decision[1].Outcome = "MAYBE"
    /\ libCall.ret = <<"invalid decision.outcome">>

\* Line i of a file of the given kinds fails to parse or to validate.
BadLine(kinds, i) == kinds[i] \in {"invalid", "truncated"}

\* Line i is longer than the scanner can hold.
UnscannableLine(kinds, i) == kinds[i] = "long"

\* Line i is the first that fails or cannot be scanned.
FirstStop(kinds, i) ==
    /\ i \in 1..Len(kinds)
    /\ BadLine(kinds, i) \/ UnscannableLine(kinds, i)
    /\ \A k \in 1..(i - 1) : ~BadLine(kinds, k) /\ ~UnscannableLine(kinds, k)

\* C26: ValidateJSONLFile stops at the first line that fails to parse or to
\* validate and returns a ValidationError carrying that line's 1-based
\* position, blank lines counted; it returns nil exactly when every
\* non-blank line validates; a file that cannot be opened or scanned gives
\* an error that is not a ValidationError.
C26_FirstFailingLine ==
    Called("ValidateJSONLFile") =>
        LET a == libCall.arg
            r == libCall.ret
            opens == a.exists /\ (a.name \in {"trace.jsonl.gz", "plain.gz"} => a.gzip)
        IN  /\ ~opens => r.kind = "error"
            /\ opens =>
                  /\ \A i \in 1..Len(a.kinds) :
                        (FirstStop(a.kinds, i) /\ BadLine(a.kinds, i))
                            => (r.kind = "ValidationError" /\ r.line = i)
                  /\ \A i \in 1..Len(a.kinds) :
                        (FirstStop(a.kinds, i) /\ UnscannableLine(a.kinds, i))
                            => r.kind = "error"
                  /\ (r.kind = "nil") <=>
                        \A i \in 1..Len(a.kinds) :
                            ~BadLine(a.kinds, i) /\ ~UnscannableLine(a.kinds, i)

\* A file of a blank line, a valid line and a line that is not valid JSON
\* has been rejected at line 3.
C26_Witness ==
    /\ Called("ValidateJSONLFile")
    /\ libCall.arg.kinds = <<"blank", "check", "truncated">>
    /\ libCall.arg.name = "trace.jsonl.gz"
    /\ libCall.ret = ValidationError(Len(libCall.arg.kinds), "invalid JSON")

\* The members of an event the schema requires.
Required(ev) ==
    [SchemaVersion |-> ev.SchemaVersion, EventType |-> ev.EventType,
     Timestamp |-> ev.Timestamp, Actor |-> ev.Actor, Target |-> ev.Target,
     Permission |-> IF ev.Action = Nil THEN Nil ELSE <<ev.Action[1].Permission>>,
     Outcome |-> IF ev.Decision = Nil THEN Nil ELSE <<ev.Decision[1].Outcome>>,
     Error |-> IF ev.Error = Nil THEN Nil
               ELSE <<ev.Error[1].Kind, ev.Error[1].Message>>]

\* The file read back holds one line per event, each decoding to an event
\* with the same schema version and required members, and is accepted.
RoundTrips(evs, r) ==
    /\ r.result.kind = "nil"
    /\ Len(r.decoded) = Len(evs)
    /\ \A i \in 1..Len(evs) :
          r.decoded[i] # <<>> /\ Required(r.decoded[i][1]) = Required(evs[i])

\* C27: any sequence of events that each pass ValidateEvent, emitted to a
\* file and flushed, is accepted by ValidateJSONLFile when the file is read
\* back, plain or gzip-compressed under a .gz name, each line decoding to
\* the event emitted.
C27_RoundTrip ==
    (Called("EmitThenValidate")
        /\ \A i \in 1..Len(libCall.arg.events) :
              ValidateEvent(libCall.arg.events[i]) = NoError)
        => RoundTrips(libCall.arg.events, libCall.ret)

\* The part of C27 that holds: the round trip of events whose line is
\* shorter than 64 KiB.
C27_RoundTripOfShortLines ==
    (Called("EmitThenValidate")
        /\ \A i \in 1..Len(libCall.arg.events) : libCall.arg.events[i] # LongLineEvent)
        => RoundTrips(libCall.arg.events, libCall.ret)

(***************************************************************************)
(* Properties of the mode off and of releasing resources.                  *)
(***************************************************************************)
\* C28: a CheckPermission call on a client whose mode is off issues no
\* remote TestIamPermissions call: no request is in flight and none has
\* returned.
C28_OffIssuesNoRemoteCall ==
    (hasClient /\ mode = AuthModeOff) => (pc # "invoke" /\ outcome = <<>>)

\* C29: on a file-backed writer, once a Close has returned, with or without
\* an error, the file is closed, and it has been closed exactly once however
\* many Close calls were made.
C29_FileClosedExactlyOnce ==
    (hasWriter /\ ~outIsStdout /\ wClosed) => (outClosed /\ outCloses = 1)

\* The part of C29 that holds: the file is closed exactly once when the
\* flush inside the first Close succeeded.
C29_FileClosedOnceWhenFlushSucceeds ==
    (hasWriter /\ ~outIsStdout /\ wClosed /\ ~bwErr) => (outClosed /\ outCloses = 1)

\* C30: after Client.Close has returned, the connection is closed and so is
\* the trace sink NewClient opened from IAM_TRACE_OUTPUT (the writer is
\* closed, and its file unless the sink is the standard output), and no
\* later step appends anything to the trace sink.
C30_CloseReleasesConnAndSink ==
    /\ []((hasClient /\ closeRet # <<>>) =>
            /\ connClosed
            /\ hasWriter => (wClosed /\ (~outIsStdout => outClosed)))
    /\ [][(hasClient /\ closeRet # <<>>) => out' = out]_vars

\* The part of C30 that holds: Client.Close closes the connection.
C30_CloseClosesConn ==
    (hasClient /\ closeRet # <<>>) => connClosed

====
